---- MODULE Spec2Model ----
(***************************************************************************)
(* A model of the dawichi/blog repository: the content schema of           *)
(* src/content/config.ts, the build of the list page and of the           *)
(* per-article page, the client-side tag filter script of the list page,  *)
(* and the script of the per-article page (table of contents, progress    *)
(* bar).                                                                   *)
(*                                                                         *)
(* JavaScript strings are sequences of one-character strings, so that the  *)
(* DOM's text conversions (innerHTML, innerText) and the default sort      *)
(* order are computed and not assumed.                                     *)
(***************************************************************************)
EXTENDS Naturals, Integers, Sequences, FiniteSets, TLC

VARIABLES
    raw,              \* schema run: the frontmatter record handed to the schema
    parsed,           \* schema run: the schema's result, or NotParsed
    files,            \* build: the frontmatter of the content files, by file index
    node_env,         \* build: import.meta.env.NODE_ENV
    store,            \* build: the entries of the collection once loaded
    failed,           \* build: an uncaught error has aborted the build
    listPage,         \* the DOM of the list page: tag buttons and list items
    routes,           \* build: the result of getStaticPaths
    articlePages,     \* build: the per-article views rendered so far
    postDim,          \* filter: list item index -> has class 'opacity-20'
    tagDim,           \* filter: tag button index -> has class 'opacity-20'
    last_tag_clicked, \* filter: the script's variable (a string, or null)
    clickLog,         \* filter: the last two clicks, newest first (history)
    streak,           \* filter: successive clicks on one button (history)
    doc,              \* article page: the document the page's script runs on
    toc,              \* article page: the children of #table-of-contents
    tocRuns,          \* article page: invocations of generateTableOfContents
    listening,        \* article page: the scroll listener is registered
    scriptErrors,     \* article page: the functions that threw an uncaught error
    view,             \* article page: scrollY and the heights the handler reads
    barWidth,         \* article page: style.width of #post-progress-bar
    scrollLog         \* article page: the last two scroll events (history)

vars == <<raw, parsed, files, node_env, store, failed, listPage, routes,
          articlePages, postDim, tagDim, last_tag_clicked, clickLog, streak,
          doc, toc, tocRuns, listening, scriptErrors, view, barWidth, scrollLog>>

schemaVars == <<raw, parsed>>
buildVars  == <<files, node_env, store, failed, listPage, routes, articlePages>>
filterVars == <<postDim, tagDim, last_tag_clicked, clickLog, streak>>
articleVars == <<doc, toc, tocRuns, listening, scriptErrors, view, barWidth,
                 scrollLog>>

(***************************************************************************)
(* Bounds of the model.                                                    *)
(***************************************************************************)
MaxFiles == 2      \* content files in the collection
MaxStreak == 4     \* successive clicks on one button that are counted
MaxHeadings == 3   \* heading elements in the document of an article page
MaxRuns == 2       \* invocations of generateTableOfContents on one page
MaxDated == 3      \* content files in a collection built for its order
MaxHeight == 5     \* height of a page and of its window, in units

(***************************************************************************)
(* JavaScript strings.                                                     *)
(***************************************************************************)
S_js   == <<"j", "s">>
S_all  == <<"a", "l", "l">>
S_rnd  == <<"r", "&", "d">>
S_sjs  == <<" ", "j", "s">>
S_title == <<"t">>
S_desc  == <<"d">>
S_img   == <<"/", "i">>
S_2022  == <<"2", "0", "2", "2">>
S_2023  == <<"2", "0", "2", "3">>
S_soon  == <<"s", "o", "o", "n">>
S_true  == <<"t", "r", "u", "e">>

\* UTF-16 code unit of each character the model uses.
charCodeAt(c) ==
    CASE c = " " -> 32
      [] c = "&" -> 38
      [] c = "/" -> 47
      [] c = "0" -> 48
      [] c = "1" -> 49
      [] c = "2" -> 50
      [] c = "3" -> 51
      [] c = ";" -> 59
      [] c = "a" -> 97
      [] c = "d" -> 100
      [] c = "e" -> 101
      [] c = "g" -> 103
      [] c = "i" -> 105
      [] c = "j" -> 106
      [] c = "l" -> 108
      [] c = "m" -> 109
      [] c = "n" -> 110
      [] c = "o" -> 111
      [] c = "p" -> 112
      [] c = "r" -> 114
      [] c = "s" -> 115
      [] c = "t" -> 116
      [] c = "u" -> 117

isDigit(c) == c \in {"0", "1", "2", "3"}
digitValue(c) == charCodeAt(c) - charCodeAt("0")

(***************************************************************************)
(* Frontmatter values, as the YAML parser hands them to the schema.        *)
(*   t: the JavaScript type; s: a string's text; n: a number, a boolean    *)
(*   (0/1) or a Date's time value; a: an array's elements.                 *)
(***************************************************************************)
YUndef      == [t |-> "undefined", s |-> <<>>, n |-> 0, a |-> <<>>]
YStr(s)     == [t |-> "string", s |-> s, n |-> 0, a |-> <<>>]
YNum(n)     == [t |-> "number", s |-> <<>>, n |-> n, a |-> <<>>]
YBool(b)    == [t |-> "boolean", s |-> <<>>, n |-> IF b THEN 1 ELSE 0, a |-> <<>>]
YDate(time) == [t |-> "date", s |-> <<>>, n |-> time, a |-> <<>>]
YArr(items) == [t |-> "array", s |-> <<>>, n |-> 0, a |-> items]

\* A Date object: its time value, or NaN ("Invalid Date").
DateOf(time) == [nan |-> FALSE, time |-> time]
InvalidDate  == [nan |-> TRUE, time |-> 0]

\* Date.parse on the strings of the model: the ISO year form YYYY denotes a
\* date (time is counted in years here), any other text does not.
RECURSIVE parseDigits(_)
parseDigits(s) ==
    IF s = <<>> THEN 0
    ELSE 10 * parseDigits(SubSeq(s, 1, Len(s) - 1)) + digitValue(s[Len(s)])

DateParse(s) ==
    IF Len(s) = 4 /\ \A i \in 1..Len(s) : isDigit(s[i])
    THEN DateOf(parseDigits(s))
    ELSE InvalidDate

\* new Date(val) for val a string or a Date
NewDate(val) ==
    IF val.t = "string" THEN DateParse(val.s) ELSE DateOf(val.n)

(***************************************************************************)
(* The schema of the 'blog' collection (zod).  Each parser returns         *)
(* [ok, v]: whether the input is accepted, and the output value.           *)
(***************************************************************************)
z_string(x) == [ok |-> x.t = "string", v |-> x.s]

z_boolean(x) == [ok |-> x.t = "boolean", v |-> (x.t = "boolean" /\ x.n = 1)]

z_array_string(x) ==
    LET ok == x.t = "array" /\ \A i \in 1..Len(x.a) : x.a[i].t = "string"
    IN  [ok |-> ok,
         v |-> IF ok THEN [i \in 1..Len(x.a) |-> x.a[i].s] ELSE <<>>]

\* z.string().or(z.date()).transform(val => new Date(val))
z_pubDate(x) ==
    LET ok == x.t = "string" \/ x.t = "date"
    IN  [ok |-> ok, v |-> IF ok THEN NewDate(x) ELSE InvalidDate]

NoData ==
    [title |-> <<>>, description |-> <<>>, pubDate |-> InvalidDate,
     heroImage |-> <<>>, tags |-> <<>>, visible |-> FALSE]

\* Faulty variant of blog: visible declared optional.
blog_visible_optional(input) ==
    LET title == z_string(input.title)
        description == z_string(input.description)
        pubDate == z_pubDate(input.pubDate)
        heroImage == z_string(input.heroImage)
        tags == z_array_string(input.tags)
        visible == IF input.visible.t = "undefined"
                   THEN [ok |-> TRUE, v |-> FALSE]
                   ELSE z_boolean(input.visible)
        success == title.ok /\ description.ok /\ pubDate.ok /\ heroImage.ok
                   /\ tags.ok /\ visible.ok
    IN  [success |-> success,
         data |-> IF success
                  THEN [title |-> title.v, description |-> description.v,
                        pubDate |-> pubDate.v, heroImage |-> heroImage.v,
                        tags |-> tags.v, visible |-> visible.v]
                  ELSE NoData]

\* schema.safeParse(input) for the schema of config.ts
blog(input) ==
    LET title == z_string(input.title)
        description == z_string(input.description)
        pubDate == z_pubDate(input.pubDate)
        heroImage == z_string(input.heroImage)
        tags == z_array_string(input.tags)
        visible == z_boolean(input.visible)
        success == title.ok /\ description.ok /\ pubDate.ok /\ heroImage.ok
                   /\ tags.ok /\ visible.ok
    IN  [success |-> success,
         data |-> IF success
                  THEN [title |-> title.v, description |-> description.v,
                        pubDate |-> pubDate.v, heroImage |-> heroImage.v,
                        tags |-> tags.v, visible |-> visible.v]
                  ELSE NoData]

(***************************************************************************)
(* Array.prototype.sort.                                                   *)
(***************************************************************************)
\* a < b for strings, by UTF-16 code units: the order of sort() without a
\* comparator
RECURSIVE strLess(_, _)
strLess(a, b) ==
    IF b = <<>> THEN FALSE
    ELSE IF a = <<>> THEN TRUE
    ELSE IF charCodeAt(Head(a)) < charCodeAt(Head(b)) THEN TRUE
    ELSE IF charCodeAt(Head(a)) > charCodeAt(Head(b)) THEN FALSE
    ELSE strLess(Tail(a), Tail(b))

\* x put after every element of the sorted sequence that is not greater (the
\* sort is stable)
RECURSIVE insertStr(_, _)
insertStr(sorted, x) ==
    IF sorted = <<>> THEN <<x>>
    ELSE IF strLess(x, Head(sorted)) THEN <<x>> \o sorted
    ELSE <<Head(sorted)>> \o insertStr(Tail(sorted), x)

\* strings.sort()
RECURSIVE sortStrings(_)
sortStrings(strings) ==
    IF strings = <<>> THEN <<>>
    ELSE insertStr(sortStrings(SubSeq(strings, 1, Len(strings) - 1)),
                   strings[Len(strings)])

\* The comparator of the list page, (a, b) => a.data.pubDate.valueOf() -
\* b.data.pubDate.valueOf(), as sort reads it: its sign, NaN read as +0.
byPubDate(a, b) ==
    IF a.data.pubDate.nan \/ b.data.pubDate.nan THEN 0
    ELSE IF a.data.pubDate.time < b.data.pubDate.time THEN -1
    ELSE IF a.data.pubDate.time > b.data.pubDate.time THEN 1
    ELSE 0

\* ECMAScript's "consistent comparator" for the elements of the array
consistentComparator(arr) ==
    \A i, j, k \in 1..Len(arr) :
        /\ (byPubDate(arr[i], arr[j]) = 0 /\ byPubDate(arr[j], arr[k]) = 0
                => byPubDate(arr[i], arr[k]) = 0)
        /\ (byPubDate(arr[i], arr[j]) < 0 /\ byPubDate(arr[j], arr[k]) < 0
                => byPubDate(arr[i], arr[k]) < 0)

RECURSIVE insertPost(_, _)
insertPost(sorted, x) ==
    IF sorted = <<>> THEN <<x>>
    ELSE IF byPubDate(x, Head(sorted)) < 0 THEN <<x>> \o sorted
    ELSE <<Head(sorted)>> \o insertPost(Tail(sorted), x)

RECURSIVE stableSortPosts(_)
stableSortPosts(arr) ==
    IF arr = <<>> THEN <<>>
    ELSE insertPost(stableSortPosts(SubSeq(arr, 1, Len(arr) - 1)), arr[Len(arr)])

permutationsOf(n) ==
    {f \in [1..n -> 1..n] : \A i, j \in 1..n : f[i] = f[j] => i = j}

\* arr.sort(byPubDate): the results the language allows.  With a consistent
\* comparator the stable sort; otherwise (an Invalid Date among dates that
\* differ) the order is implementation-defined.
sortByPubDate(arr) ==
    IF consistentComparator(arr) THEN {stableSortPosts(arr)}
    ELSE {[i \in 1..Len(arr) |-> arr[f[i]]] : f \in permutationsOf(Len(arr))}

\* arr.reverse()
reverse(arr) == [i \in 1..Len(arr) |-> arr[Len(arr) + 1 - i]]

(***************************************************************************)
(* The content collection.                                                 *)
(***************************************************************************)
NotLoaded == [loaded |-> FALSE, entries |-> <<>>]

\* getCollection('blog'): the entries of the collection, each the output of
\* the schema on its file's frontmatter; an error when a file fails the
\* schema.  Entries are loaded once and shared by later calls.  A file's
\* slug is its index.
getCollection(st, fs) ==
    IF st.loaded THEN [error |-> FALSE, entries |-> st.entries]
    ELSE IF \E i \in 1..Len(fs) : ~blog(fs[i]).success
    THEN [error |-> TRUE, entries |-> <<>>]
    ELSE [error |-> FALSE,
          entries |-> [i \in 1..Len(fs) |-> [slug |-> i, data |-> blog(fs[i]).data]]]

(***************************************************************************)
(* The list page.                                                          *)
(***************************************************************************)
is_development(env) == env = "development"

\* Faulty variant of posts_filter: the production filter left out.
posts_unfiltered(sorted, env) == sorted

\* lines 11-14: the filter of the posts that are not visible in production
posts_filter(sorted, env) ==
    IF ~is_development(env)
    THEN SelectSeq(sorted, LAMBDA post : post.data.visible = TRUE)
    ELSE sorted

\* Faulty variant of posts: the error of getCollection caught, the page
\* rendered with no posts.
posts_catch(r, env) ==
    IF r.error THEN {[error |-> FALSE, posts |-> <<>>]}
    ELSE {[error |-> FALSE, posts |-> posts_filter(sorted, env)] :
              sorted \in sortByPubDate(r.entries)}

\* lines 8-14, the page's frontmatter: the values `posts` can take, or the
\* error of getCollection, which the page does not catch
posts(r, env) ==
    IF r.error THEN {[error |-> TRUE, posts |-> <<>>]}
    ELSE {[error |-> FALSE, posts |-> posts_filter(sorted, env)] :
              sorted \in sortByPubDate(r.entries)}

includes(arr, x) == \E i \in 1..Len(arr) : arr[i] = x

\* Faulty variant of pushNew: every tag pushed, seen before or not.
RECURSIVE pushAll(_, _)
pushAll(acc, tags) ==
    IF tags = <<>> THEN acc
    ELSE pushAll(Append(acc, Head(tags)), Tail(tags))

\* lines 30-34: post.data.tags.forEach(tag => { if (!acc.includes(tag)) acc.push(tag) })
RECURSIVE pushNew(_, _)
pushNew(acc, tags) ==
    IF tags = <<>> THEN acc
    ELSE pushNew(IF ~includes(acc, Head(tags)) THEN Append(acc, Head(tags)) ELSE acc,
                 Tail(tags))

\* Faulty variant of reduceTags: the callback returns the post's tags, not
\* the accumulator.
RECURSIVE reduceTags_resetsAcc(_, _)
reduceTags_resetsAcc(acc, ps) ==
    IF ps = <<>> THEN acc
    ELSE reduceTags_resetsAcc(pushNew(<<>>, Head(ps).data.tags), Tail(ps))

\* lines 29-36: posts.reduce(..., [])
RECURSIVE reduceTags(_, _)
reduceTags(acc, ps) ==
    IF ps = <<>> THEN acc
    ELSE reduceTags(pushNew(acc, Head(ps).data.tags), Tail(ps))

\* lines 27-40: the text of the buttons of #tags-list
tags_list(ps) == sortStrings(reduceTags(<<>>, ps))

\* lines 45-54: one <li> of #posts-list; its spans are post.data.tags.sort()
posts_item(post) ==
    [slug |-> post.slug, spans |-> sortStrings(post.data.tags),
     title |-> post.data.title, description |-> post.data.description,
     pubDate |-> post.data.pubDate]

\* lines 42-57: the <li> elements of #posts-list
posts_list(ps) == [i \in 1..Len(ps) |-> posts_item(reverse(ps)[i])]

NoPage == [rendered |-> FALSE, tags |-> <<>>, posts |-> <<>>]

\* the list page for a value of `posts`
indexPage(ps) == [rendered |-> TRUE, tags |-> tags_list(ps), posts |-> posts_list(ps)]

\* post.data.tags.sort() sorts the entry's own array: the entries after the
\* page has rendered the posts `ps`
tagsSortedIn(entries, slugs) ==
    [i \in 1..Len(entries) |->
        IF entries[i].slug \in slugs
        THEN [entries[i] EXCEPT !.data.tags = sortStrings(@)]
        ELSE entries[i]]

slugsOf(ps) == {ps[i].slug : i \in 1..Len(ps)}

(***************************************************************************)
(* The per-article page.                                                   *)
(***************************************************************************)
NoRoutes == [done |-> FALSE, paths |-> <<>>]

\* Faulty variant of getStaticPaths: no path for the last entry.
getStaticPaths_dropsLast(r) ==
    [done |-> TRUE,
     paths |-> [i \in 1..(Len(r.entries) - 1) |->
                   [params |-> [slug |-> r.entries[i].slug], props |-> i]]]

\* Faulty variant of getStaticPaths: paths for the visible entries only.
getStaticPaths_visibleOnly(r) ==
    LET shown == SelectSeq([i \in 1..Len(r.entries) |-> i],
                           LAMBDA i : r.entries[i].data.visible)
    IN  [done |-> TRUE,
         paths |-> [k \in 1..Len(shown) |->
                       [params |-> [slug |-> r.entries[shown[k]].slug],
                        props |-> shown[k]]]]

\* getStaticPaths: one path per entry of the collection, its props the entry
getStaticPaths(r) ==
    [done |-> TRUE,
     paths |-> [i \in 1..Len(r.entries) |->
                   [params |-> [slug |-> r.entries[i].slug], props |-> i]]]

\* the view of an entry: its tags are shown as tags.sort()
articleView(entry) ==
    [slug |-> entry.slug, title |-> entry.data.title,
     tags |-> sortStrings(entry.data.tags), pubDate |-> entry.data.pubDate]

(***************************************************************************)
(* The inputs.                                                             *)
(***************************************************************************)
Frontmatter(title, description, pubDate, heroImage, tags, visible) ==
    [title |-> title, description |-> description, pubDate |-> pubDate,
     heroImage |-> heroImage, tags |-> tags, visible |-> visible]

\* One record for the schema: each field absent, well typed or ill typed.
RawRecords ==
    {Frontmatter(title, description, pubDate, heroImage, tags, visible) :
        title \in {YUndef, YStr(S_title), YNum(7)},
        description \in {YUndef, YStr(S_desc), YBool(TRUE)},
        pubDate \in {YUndef, YDate(2022), YStr(S_2023), YStr(S_soon), YNum(2022)},
        heroImage \in {YUndef, YStr(S_img), YArr(<<>>)},
        tags \in {YUndef, YArr(<<>>), YArr(<<YStr(S_js)>>),
                  YArr(<<YStr(S_js), YNum(7)>>), YStr(S_js)},
        visible \in {YUndef, YBool(TRUE), YBool(FALSE), YStr(S_true)}}

YTags(tags) == YArr([i \in 1..Len(tags) |-> YStr(tags[i])])

\* Content files the schema accepts: tags (one repeated, two out of order),
\* publish date (a date, a text that denotes one, a text that denotes none)
\* and visibility vary.
GoodFiles ==
    {Frontmatter(YStr(S_title), YStr(S_desc), pubDate, YStr(S_img),
                 YTags(tags), YBool(visible)) :
        pubDate \in {YDate(2022), YStr(S_2023), YStr(S_soon)},
        tags \in {<<S_js, S_js>>, <<S_rnd, S_js>>},
        visible \in BOOLEAN}

\* Content files for the tag filter: the labels vary ('all', a label with a
\* character that markup escapes, a label with a leading space).
FilterFiles ==
    {Frontmatter(YStr(S_title), YStr(S_desc), YDate(2022), YStr(S_img),
                 YTags(tags), YBool(visible)) :
        tags \in {<<>>, <<S_js>>, <<S_all>>, <<S_sjs>>, <<S_rnd, S_js>>,
                  <<S_js, S_js>>},
        visible \in BOOLEAN}

\* Content files for the order of the list: the dates vary (a Date, a text
\* that denotes a date, a text that denotes none), all files visible.
DatedFiles ==
    {Frontmatter(YStr(S_title), YStr(S_desc), pubDate, YStr(S_img),
                 YTags(tags), YBool(TRUE)) :
        pubDate \in {YDate(2022), YStr(S_2023), YStr(S_soon)},
        tags \in {<<S_rnd, S_js>>, <<S_all>>}}

\* Content files the schema rejects.
BadFiles ==
    {Frontmatter(YUndef, YStr(S_desc), YDate(2022), YStr(S_img),
                 YArr(<<YStr(S_js)>>), YBool(TRUE)),
     Frontmatter(YStr(S_title), YStr(S_desc), YDate(2022), YStr(S_img),
                 YArr(<<YStr(S_js)>>), YStr(S_true))}

SeqsUpTo(S, n) == UNION {[1..k -> S] : k \in 0..n}

NodeEnvs == {"development", "production", "undefined"}

(***************************************************************************)
(* Schema run: the schema applied to one frontmatter record.               *)
(***************************************************************************)
NotParsed == [done |-> FALSE, success |-> FALSE, data |-> NoData]

NoClicks == <<>>
NoStreak == [tag |-> 0, n |-> 0]
NoDocument == [article |-> FALSE, toc |-> FALSE, bar |-> FALSE, headings |-> <<>>]
NoView == [scrollY |-> 0, scrollHeight |-> 0, innerHeight |-> 0]
NoWidth == [set |-> FALSE, num |-> 0, den |-> 1]
Null == [isNull |-> TRUE, s |-> <<>>]

BuildIdle ==
    /\ files = <<>> /\ node_env = "undefined" /\ store = NotLoaded
    /\ failed = FALSE /\ listPage = NoPage /\ routes = NoRoutes
    /\ articlePages = {}

FilterIdle ==
    /\ postDim = <<>> /\ tagDim = <<>> /\ last_tag_clicked = Null
    /\ clickLog = NoClicks /\ streak = NoStreak

ArticleIdle ==
    /\ doc = NoDocument /\ toc = <<>> /\ tocRuns = 0 /\ listening = FALSE
    /\ scriptErrors = {} /\ view = NoView /\ barWidth = NoWidth
    /\ scrollLog = <<>>

SchemaIdle == raw = Frontmatter(YUndef, YUndef, YUndef, YUndef, YUndef, YUndef)
              /\ parsed = NotParsed

InitSchema ==
    /\ raw \in RawRecords
    /\ parsed = NotParsed
    /\ BuildIdle
    /\ FilterIdle
    /\ ArticleIdle

SafeParse ==
    /\ ~parsed.done
    /\ parsed' = [done |-> TRUE, success |-> blog(raw).success, data |-> blog(raw).data]
    /\ UNCHANGED <<raw, buildVars, filterVars, articleVars>>

NextSchema == SafeParse

SpecSchema == InitSchema /\ [][NextSchema]_vars

(***************************************************************************)
(* Build: the pages rendered from the content files.                       *)
(***************************************************************************)
InitBuild ==
    /\ files \in SeqsUpTo(GoodFiles \cup BadFiles, MaxFiles)
    /\ node_env \in NodeEnvs
    /\ store = NotLoaded
    /\ failed = FALSE
    /\ listPage = NoPage
    /\ routes = NoRoutes
    /\ articlePages = {}
    /\ SchemaIdle
    /\ FilterIdle
    /\ ArticleIdle

\* The list page is rendered: its frontmatter and its template.
RenderIndex ==
    /\ ~failed
    /\ ~listPage.rendered
    /\ \E p \in posts(getCollection(store, files), node_env) :
          \/ /\ p.error
             /\ failed' = TRUE
             /\ UNCHANGED <<store, listPage>>
          \/ /\ ~p.error
             /\ listPage' = indexPage(p.posts)
             /\ store' = [loaded |-> TRUE,
                          entries |-> tagsSortedIn(getCollection(store, files).entries,
                                                   slugsOf(p.posts))]
             /\ UNCHANGED failed
    /\ UNCHANGED <<files, node_env, routes, articlePages, schemaVars, filterVars,
                   articleVars>>

\* getStaticPaths of the per-article page
GetStaticPaths ==
    /\ ~failed
    /\ ~routes.done
    /\ LET r == getCollection(store, files)
       IN  \/ /\ r.error
              /\ failed' = TRUE
              /\ UNCHANGED <<store, routes>>
           \/ /\ ~r.error
              /\ routes' = getStaticPaths(r)
              /\ store' = [loaded |-> TRUE, entries |-> r.entries]
              /\ UNCHANGED failed
    /\ UNCHANGED <<files, node_env, listPage, articlePages, schemaVars, filterVars,
                   articleVars>>

\* The page of one path is rendered with the path's props.
RenderArticle(k) ==
    /\ ~failed
    /\ routes.done
    /\ k \in 1..Len(routes.paths)
    /\ ~\E v \in articlePages : v.slug = routes.paths[k].params.slug
    /\ LET entry == store.entries[routes.paths[k].props]
       IN  /\ articlePages' = articlePages \cup {articleView(entry)}
           /\ store' = [store EXCEPT !.entries = tagsSortedIn(@, {entry.slug})]
    /\ UNCHANGED <<files, node_env, failed, listPage, routes, schemaVars, filterVars,
                   articleVars>>

NextBuild ==
    \/ RenderIndex
    \/ GetStaticPaths
    \/ \E k \in 1..MaxFiles : RenderArticle(k)

SpecBuild == InitBuild /\ [][NextBuild]_vars

\* The build of the list page alone, over collections of up to MaxDated
\* visible files whose dates vary.
InitOrder ==
    /\ files \in SeqsUpTo(DatedFiles, MaxDated)
    /\ node_env \in NodeEnvs
    /\ store = NotLoaded
    /\ failed = FALSE
    /\ listPage = NoPage
    /\ routes = NoRoutes
    /\ articlePages = {}
    /\ SchemaIdle
    /\ FilterIdle
    /\ ArticleIdle

NextOrder == RenderIndex

SpecOrder == InitOrder /\ [][NextOrder]_vars

(***************************************************************************)
(* The DOM's text conversions.  An element of the list page holds the text *)
(* the template put in it.                                                 *)
(***************************************************************************)
\* the markup of one character of a text node
escapeChar(c) ==
    CASE c = "&" -> <<"&", "a", "m", "p", ";">>
      [] c = "<" -> <<"&", "l", "t", ";">>
      [] c = ">" -> <<"&", "g", "t", ";">>
      [] OTHER -> <<c>>

\* element.innerHTML of an element holding one text node
RECURSIVE innerHTML(_)
innerHTML(text) ==
    IF text = <<>> THEN <<>>
    ELSE escapeChar(Head(text)) \o innerHTML(Tail(text))

\* white-space: normal collapses a run of spaces into one
RECURSIVE collapseSpaces(_)
collapseSpaces(text) ==
    IF Len(text) < 2 THEN text
    ELSE IF text[1] = " " /\ text[2] = " " THEN collapseSpaces(Tail(text))
    ELSE <<text[1]>> \o collapseSpaces(Tail(text))

\* and removes the space at the start and at the end of the line
trimSpaces(text) ==
    LET a == IF text # <<>> /\ Head(text) = " " THEN Tail(text) ELSE text
    IN  IF a # <<>> /\ a[Len(a)] = " " THEN SubSeq(a, 1, Len(a) - 1) ELSE a

\* element.innerText of a rendered element holding one text node
innerText(text) == trimSpaces(collapseSpaces(text))

(***************************************************************************)
(* The tag filter script of the list page.                                 *)
(***************************************************************************)
JsString(s) == [isNull |-> FALSE, s |-> s]

\* tags.includes(tag_clicked) for the texts of a post's spans
spanTexts(item) == [i \in 1..Len(item.spans) |-> innerText(item.spans[i])]

\* Faulty variant of updatePosts: the test for 'all' left out.
updatePosts_noAll(page, tag_clicked) ==
    [i \in 1..Len(page.posts) |-> ~includes(spanTexts(page.posts[i]), tag_clicked)]

\* updatePosts(tag_clicked): whether each post ends with class 'opacity-20'
updatePosts(page, tag_clicked) ==
    [i \in 1..Len(page.posts) |->
        ~(includes(spanTexts(page.posts[i]), tag_clicked) \/ tag_clicked = S_all)]

\* updateTags(tag_clicked): whether each button ends with class 'opacity-20'
updateTags(page, tag_clicked) ==
    [j \in 1..Len(page.tags) |->
        ~(innerHTML(page.tags[j]) = tag_clicked \/ tag_clicked = S_all)]

\* Faulty variant of onTagClick: the reset branch falls through to the
\* selection (its return left out).
onTagClick_noReturn(page, ltc, j) ==
    [page |-> page,
     postDim |-> updatePosts(page, innerText(page.tags[j])),
     tagDim |-> updateTags(page, innerText(page.tags[j])),
     last_tag_clicked |-> JsString(innerHTML(page.tags[j]))]

\* Faulty variant of onTagClick: the selection stored as the button's text,
\* not its markup.
onTagClick_storesText(page, ltc, j) ==
    IF ltc = JsString(innerHTML(page.tags[j]))
    THEN [page |-> page,
          postDim |-> updatePosts(page, S_all),
          tagDim |-> updateTags(page, S_all),
          last_tag_clicked |-> Null]
    ELSE [page |-> page,
          postDim |-> updatePosts(page, innerText(page.tags[j])),
          tagDim |-> updateTags(page, innerText(page.tags[j])),
          last_tag_clicked |-> JsString(innerText(page.tags[j]))]

\* Faulty variant of onTagClick: the reset leaves last_tag_clicked as it is.
onTagClick_keepsLast(page, ltc, j) ==
    IF ltc = JsString(innerHTML(page.tags[j]))
    THEN [page |-> page,
          postDim |-> updatePosts(page, S_all),
          tagDim |-> updateTags(page, S_all),
          last_tag_clicked |-> ltc]
    ELSE [page |-> page,
          postDim |-> updatePosts(page, innerText(page.tags[j])),
          tagDim |-> updateTags(page, innerText(page.tags[j])),
          last_tag_clicked |-> JsString(innerHTML(page.tags[j]))]

\* Faulty variant of onTagClick: the posts without the tag are taken out of
\* the list instead of dimmed.
onTagClick_removesPosts(page, ltc, j) ==
    IF ltc = JsString(innerHTML(page.tags[j]))
    THEN [page |-> page,
          postDim |-> updatePosts(page, S_all),
          tagDim |-> updateTags(page, S_all),
          last_tag_clicked |-> Null]
    ELSE LET kept == [page EXCEPT !.posts =
                         SelectSeq(@, LAMBDA item :
                             includes(spanTexts(item), innerText(page.tags[j])))]
         IN  [page |-> kept,
              postDim |-> updatePosts(kept, innerText(page.tags[j])),
              tagDim |-> updateTags(page, innerText(page.tags[j])),
              last_tag_clicked |-> JsString(innerHTML(page.tags[j]))]

\* the click listener of button j, run with last_tag_clicked = ltc: the
\* page after it (the listener changes class lists only), the class
\* 'opacity-20' of the posts and of the buttons, and last_tag_clicked
onTagClick(page, ltc, j) ==
    IF ltc = JsString(innerHTML(page.tags[j]))
    THEN [page |-> page,
          postDim |-> updatePosts(page, S_all),
          tagDim |-> updateTags(page, S_all),
          last_tag_clicked |-> Null]
    ELSE [page |-> page,
          postDim |-> updatePosts(page, innerText(page.tags[j])),
          tagDim |-> updateTags(page, innerText(page.tags[j])),
          last_tag_clicked |-> JsString(innerHTML(page.tags[j]))]

\* The script has run on a page as the template rendered it.
ScriptLoaded(page) ==
    /\ postDim = [i \in 1..Len(page.posts) |-> FALSE]
    /\ tagDim = [j \in 1..Len(page.tags) |-> FALSE]
    /\ last_tag_clicked = Null
    /\ clickLog = NoClicks
    /\ streak = NoStreak

InitFilter ==
    /\ files \in SeqsUpTo(FilterFiles, MaxFiles)
    /\ node_env \in NodeEnvs
    /\ \E p \in posts(getCollection(NotLoaded, files), node_env) :
          /\ listPage = indexPage(p.posts)
          /\ store = [loaded |-> TRUE,
                      entries |-> tagsSortedIn(getCollection(NotLoaded, files).entries,
                                               slugsOf(p.posts))]
    /\ failed = FALSE
    /\ routes = NoRoutes
    /\ articlePages = {}
    /\ SchemaIdle
    /\ ArticleIdle
    /\ ScriptLoaded(listPage)

\* the display of the page as loaded: nothing dimmed, nothing selected
NothingSelected ==
    /\ \A p \in 1..Len(postDim) : ~postDim[p]
    /\ \A k \in 1..Len(tagDim) : ~tagDim[k]
    /\ last_tag_clicked = Null

\* The visitor clicks button j of #tags-list.  streak counts the successive
\* clicks on one button since a display with nothing selected (up to
\* MaxStreak; MaxStreak + 1 stands for more).
Click(j) ==
    /\ j \in 1..Len(listPage.tags)
    /\ LET after == onTagClick(listPage, last_tag_clicked, j)
       IN  /\ listPage' = after.page
           /\ postDim' = after.postDim
           /\ tagDim' = after.tagDim
           /\ last_tag_clicked' = after.last_tag_clicked
    /\ clickLog' = SubSeq(<<[tag |-> j, before |-> last_tag_clicked]>> \o clickLog, 1,
                          IF clickLog = <<>> THEN 1 ELSE 2)
    /\ streak' = IF streak.n > 0 /\ streak.tag = j
                 THEN [streak EXCEPT !.n = IF @ > MaxStreak THEN @ ELSE @ + 1]
                 ELSE IF NothingSelected THEN [tag |-> j, n |-> 1]
                 ELSE NoStreak
    /\ UNCHANGED <<schemaVars, files, node_env, store, failed, routes, articlePages,
                   articleVars>>

MaxButtons == 2 * MaxFiles

NextFilter == \E j \in 1..MaxButtons : Click(j)

SpecFilter == InitFilter /\ [][NextFilter]_vars

(***************************************************************************)
(* The per-article page in the browser: the inline script of               *)
(* [...slug].astro, lines 50-101.  The document is the script's input: the *)
(* page of the template has the article element, #table-of-contents and    *)
(* (from the layout) #post-progress-bar; documents lacking one of them are *)
(* the cases the generator's own check at line 62 is written for.          *)
(***************************************************************************)
Digits == <<"0", "1", "2", "3", "4", "5", "6", "7", "8", "9">>

\* the id and the text content of the i-th heading of a document; the text
\* of an even heading has white space around and inside it
headingId(i) == <<"s", "-", Digits[i + 1]>>
headingText(i) ==
    IF i % 2 = 0 THEN <<" ", "T", " ", " ", Digits[i + 1], " ">>
    ELSE <<"T", Digits[i + 1]>>

\* a heading element is h1..h6 inside the article element, or a heading
\* elsewhere in the document (the layout, the aside)
HeadingShapes ==
    [nodeName : {"H1", "H2", "H3", "H4", "H5", "H6"}, inArticle : {TRUE}]
        \cup [nodeName : {"H1", "H2"}, inArticle : {FALSE}]

HeadingsOfLength(n, shapes) ==
    {[i \in 1..n |-> [nodeName |-> f[i].nodeName, inArticle |-> f[i].inArticle,
                      id |-> headingId(i), textContent |-> headingText(i)]] :
        f \in [1..n -> shapes]}

Headings(shapes) == UNION {HeadingsOfLength(n, shapes) : n \in 0..MaxHeadings}

\* the documents: the article page; the article page without one of the two
\* elements by id; a page without an article element
ArticleDocuments ==
    {[article |-> TRUE, toc |-> e[1], bar |-> e[2], headings |-> hs] :
        e \in {<<TRUE, TRUE>>, <<FALSE, TRUE>>, <<TRUE, FALSE>>},
        hs \in Headings(HeadingShapes)}
    \cup
    {[article |-> FALSE, toc |-> FALSE, bar |-> TRUE, headings |-> hs] :
        hs \in Headings({sh \in HeadingShapes : ~sh.inArticle})}

\* the window: a page two windows taller than the window
ArticleViews == {[scrollY |-> 0, scrollHeight |-> 3, innerHeight |-> 1]}

\* Faulty variant of querySelectorAll: the h2 and h3 of the whole document.
querySelectorAll_document(d) ==
    SelectSeq(d.headings, LAMBDA k : k.nodeName \in {"H2", "H3"})

\* getElementsByClassName('dw-blog-article')[0].querySelectorAll('h2, h3'):
\* the h2 and h3 elements inside the article, in document order
querySelectorAll(d) ==
    SelectSeq(d.headings, LAMBDA k : k.inArticle /\ k.nodeName \in {"H2", "H3"})

\* margins[k.nodeName]; '' stands for undefined
margins(nodeName) ==
    CASE nodeName = "H2" -> "0rem"
      [] nodeName = "H3" -> "1rem"
      [] OTHER -> ""

\* Faulty variant of tocEntry: the link is the id without the '#'.
tocEntry_noHash(k) ==
    [href |-> k.id,
     innerText |-> innerText(k.textContent),
     marginLeft |-> margins(k.nodeName)]

\* the <li><a> built for heading k (lines 73-90)
tocEntry(k) ==
    [href |-> <<"#">> \o k.id,
     innerText |-> innerText(k.textContent),
     marginLeft |-> margins(k.nodeName)]

\* Faulty variant of generateTableOfContents: no check of childElementCount.
generateTableOfContents_noGuard(d, t) ==
    IF ~d.article THEN [error |-> FALSE, toc |-> t]
    ELSE IF ~d.toc THEN [error |-> TRUE, toc |-> t]
    ELSE LET hs == querySelectorAll(d)
         IN  [error |-> FALSE,
              toc |-> t \o [i \in 1..Len(hs) |-> tocEntry(hs[i])]]

\* generateTableOfContents (lines 60-93) on document d whose
\* #table-of-contents has the children t.  getElementById returns null for
\* a missing element, and reading a property of null throws a TypeError.
generateTableOfContents(d, t) ==
    IF ~d.article THEN [error |-> FALSE, toc |-> t]
    ELSE IF ~d.toc THEN [error |-> TRUE, toc |-> t]
    ELSE IF Len(t) # 0 THEN [error |-> FALSE, toc |-> t]
    ELSE LET hs == querySelectorAll(d)
         IN  [error |-> FALSE,
              toc |-> t \o [i \in 1..Len(hs) |-> tocEntry(hs[i])]]

\* the scroll listener (lines 98-100) on document d, window v, with the
\* bar's width w.  A value that is no percentage ('NaN%', 'Infinity%') or
\* is negative is no width, and the declaration is dropped.
onScroll(d, v, w) ==
    IF ~d.bar THEN [error |-> TRUE, width |-> w]
    ELSE LET num == v.scrollY * 100
             den == v.scrollHeight - v.innerHeight
         IN  IF den = 0 \/ (den < 0 /\ num > 0)
             THEN [error |-> FALSE, width |-> w]
             ELSE [error |-> FALSE, width |-> [set |-> TRUE, num |-> num, den |-> den]]

InitArticle ==
    /\ doc \in ArticleDocuments
    /\ toc = <<>>
    /\ tocRuns = 0
    /\ listening = FALSE
    /\ scriptErrors = {}
    /\ view \in ArticleViews
    /\ barWidth = NoWidth
    /\ scrollLog = <<>>
    /\ SchemaIdle
    /\ BuildIdle
    /\ FilterIdle

\* The page loads and its script runs: the call at line 58, then, unless
\* the call threw, the registration of the scroll listener at line 98.
LoadScript ==
    /\ tocRuns = 0
    /\ LET r == generateTableOfContents(doc, toc)
       IN  /\ toc' = r.toc
           /\ listening' = ~r.error
           /\ scriptErrors' = IF r.error THEN {"generateTableOfContents"} ELSE {}
    /\ tocRuns' = 1
    /\ UNCHANGED <<doc, view, barWidth, scrollLog, schemaVars, buildVars, filterVars>>

\* generateTableOfContents is invoked again on the same page (the listener
\* of lines 55-56 would do so on each page swap).
Regenerate ==
    /\ tocRuns \in 1..(MaxRuns - 1)
    /\ LET r == generateTableOfContents(doc, toc)
       IN  /\ toc' = r.toc
           /\ scriptErrors' = IF r.error
                               THEN scriptErrors \cup {"generateTableOfContents"}
                               ELSE scriptErrors
    /\ tocRuns' = tocRuns + 1
    /\ UNCHANGED <<doc, listening, view, barWidth, scrollLog, schemaVars, buildVars,
                   filterVars>>

\* The document scrolls and the scroll listener runs with scrollY = y.  The
\* event fires for a scroll in either direction, so y may be the offset the
\* window had; the page scrolls down by what it is taller than the window.
Scroll(y) ==
    /\ listening
    /\ y \in 0..(view.scrollHeight - view.innerHeight)
    /\ view' = [view EXCEPT !.scrollY = y]
    /\ LET r == onScroll(doc, view', barWidth)
       IN  /\ barWidth' = r.width
           /\ scriptErrors' = IF r.error THEN scriptErrors \cup {"scroll"}
                               ELSE scriptErrors
           /\ scrollLog' = SubSeq(<<[scrollY |-> y, width |-> r.width]>> \o scrollLog,
                                  1, IF scrollLog = <<>> THEN 1 ELSE 2)
    /\ UNCHANGED <<doc, toc, tocRuns, listening, schemaVars, buildVars, filterVars>>

\* the offsets a window of ArticleViews can be scrolled to
ScrollOffsets == UNION {0..(v.scrollHeight - v.innerHeight) : v \in ArticleViews}

NextArticle ==
    \/ LoadScript
    \/ Regenerate
    \/ \E y \in ScrollOffsets : Scroll(y)

SpecArticle == InitArticle /\ [][NextArticle]_vars

\* The article page of the template in windows and with bodies of varying
\* height; the body is at least as tall as the window, its <main> being
\* 'min-h-screen'.
ScrollViews ==
    {v \in [scrollY : {0}, scrollHeight : 1..MaxHeight, innerHeight : 1..MaxHeight] :
        v.scrollHeight >= v.innerHeight}

InitScroll ==
    /\ doc = [article |-> TRUE, toc |-> TRUE, bar |-> TRUE, headings |-> <<>>]
    /\ toc = <<>>
    /\ tocRuns = 0
    /\ listening = FALSE
    /\ scriptErrors = {}
    /\ view \in ScrollViews
    /\ barWidth = NoWidth
    /\ scrollLog = <<>>
    /\ SchemaIdle
    /\ BuildIdle
    /\ FilterIdle

NextScroll ==
    \/ LoadScript
    \/ \E y \in 0..MaxHeight : Scroll(y)

SpecScroll == InitScroll /\ [][NextScroll]_vars

(***************************************************************************)
(* Vocabulary of the properties.                                           *)
(***************************************************************************)
\* the tags of the article shown as list item p
articleTags(p) == store.entries[listPage.posts[p].slug].data.tags

\* the label of tag control j
labelOf(j) == listPage.tags[j]

\* last_tag_clicked value v names control j: it is j's label, as text or as
\* markup
names(v, j) == ~v.isNull /\ (v.s = labelOf(j) \/ v.s = innerHTML(labelOf(j)))

\* nothing is dimmed and no tag is selected
Unselected ==
    /\ \A p \in 1..Len(postDim) : ~postDim[p]
    /\ \A k \in 1..Len(tagDim) : ~tagDim[k]
    /\ last_tag_clicked = Null

\* the last click was on control j, made when j was not the selection
SelectingClick(j) ==
    /\ clickLog # <<>>
    /\ clickLog[1].tag = j
    /\ ~names(clickLog[1].before, j)

\* the last click was on control j, made when j was the selection
ResettingClick(j) ==
    /\ clickLog # <<>>
    /\ clickLog[1].tag = j
    /\ names(clickLog[1].before, j)

Buttons == 1..Len(listPage.tags)
Items == 1..Len(listPage.posts)

(***************************************************************************)
(* C1: a click on a tag control T that is not the current selection leaves *)
(* exactly the articles whose tags include T highlighted, every other      *)
(* listed article dimmed, and makes T the selection - for every label,     *)
(* 'all' included.                                                         *)
(***************************************************************************)
C1_ClickHighlightsExactlyTagged ==
    \A j \in Buttons :
        SelectingClick(j) =>
            /\ \A p \in Items : postDim[p] = ~includes(articleTags(p), labelOf(j))
            /\ names(last_tag_clicked, j)

(***************************************************************************)
(* C2: a click on a tag control T that is not the current selection leaves *)
(* T highlighted and every other tag control dimmed, for every label.      *)
(***************************************************************************)
C2_ClickHighlightsOnlyClickedControl ==
    \A j \in Buttons :
        SelectingClick(j) => \A k \in Buttons : tagDim[k] = (k # j)

(***************************************************************************)
(* C3: a click on the tag control that is the current selection removes    *)
(* the dimmed marker from every list item and every tag control and sets   *)
(* last_tag_clicked to none.                                               *)
(***************************************************************************)
C3_ClickOnSelectedResets ==
    \A j \in Buttons : ResettingClick(j) => Unselected

\* T was selected, dimming an article without T, and was clicked again
C3_Witness ==
    \E j \in Buttons :
        /\ ResettingClick(j)
        /\ \E p \in Items : ~includes(articleTags(p), labelOf(j))
        /\ \E k \in Buttons : k # j
        /\ Unselected

(***************************************************************************)
(* C4: two successive clicks on the same tag control T, the first made     *)
(* when T was not the selection, end in the unselected display of the      *)
(* initial state: nothing dimmed, last_tag_clicked none.                   *)
(***************************************************************************)
C4_TwoClicksReturnToUnselected ==
    \A j \in Buttons :
        (/\ Len(clickLog) = 2
         /\ clickLog[1].tag = j
         /\ clickLog[2].tag = j
         /\ ~names(clickLog[2].before, j)) => Unselected

\* T clicked twice, from a display where another tag U was the selection
C4_Witness ==
    \E j, k \in Buttons :
        /\ k # j
        /\ Len(clickLog) = 2
        /\ clickLog[1].tag = j
        /\ clickLog[2].tag = j
        /\ names(clickLog[2].before, k)
        /\ \E p \in Items : ~includes(articleTags(p), labelOf(j))
        /\ Unselected

(***************************************************************************)
(* C5: for distinct tag controls T and U, a click on T followed by a click *)
(* on U leaves exactly the articles whose tags include U highlighted.      *)
(***************************************************************************)
C5_SecondTagReplacesFirst ==
    \A j, k \in Buttons :
        (/\ j # k
         /\ Len(clickLog) = 2
         /\ clickLog[2].tag = j
         /\ clickLog[1].tag = k)
            => \A p \in Items : postDim[p] = ~includes(articleTags(p), labelOf(k))

(***************************************************************************)
(* C6: without the development flag the list view holds exactly the        *)
(* articles with visible = true; with the flag it holds every article.     *)
(***************************************************************************)
ListedSlugs == {listPage.posts[p].slug : p \in Items}

C6_ListShowsVisibleArticles ==
    listPage.rendered =>
        /\ Cardinality(ListedSlugs) = Len(listPage.posts)
        /\ ListedSlugs =
              IF node_env = "development" THEN 1..Len(files)
              ELSE {i \in 1..Len(files) : files[i].visible = YBool(TRUE)}

\* a production build whose list shows one article and hides another
C6_Witness ==
    /\ listPage.rendered
    /\ node_env # "development"
    /\ \E i \in 1..Len(files) : files[i].visible = YBool(FALSE)
    /\ ListedSlugs # {}

(***************************************************************************)
(* C7: the tag controls hold no duplicate label: every tag of a listed     *)
(* article is the label of exactly one control.                            *)
(***************************************************************************)
C7_TagControlsUnique ==
    listPage.rendered =>
        /\ \A j, k \in Buttons : labelOf(j) = labelOf(k) => j = k
        /\ \A i \in ListedSlugs : \A t \in 1..Len(files[i].tags.a) :
              Cardinality({j \in Buttons : labelOf(j) = files[i].tags.a[t].s}) = 1

\* two listed articles share a tag, and one of them repeats it
C7_Witness ==
    /\ listPage.rendered
    /\ \E i, k \in ListedSlugs :
          /\ i # k
          /\ files[i].tags = YTags(<<S_js, S_js>>)
          /\ files[k].tags = YTags(<<S_rnd, S_js>>)

(***************************************************************************)
(* C8: a frontmatter record that lacks a required field, or in which       *)
(* title, description or heroImage is not text, tags is not a sequence of  *)
(* text or visible is not boolean, fails the schema.                       *)
(***************************************************************************)
Fields == {"title", "description", "pubDate", "heroImage", "tags", "visible"}

LacksField(r) == \E f \in Fields : r[f].t = "undefined"

IllTyped(r) ==
    \/ r.title.t # "string"
    \/ r.description.t # "string"
    \/ r.heroImage.t # "string"
    \/ ~(r.tags.t = "array" /\ \A i \in 1..Len(r.tags.a) : r.tags.a[i].t = "string")
    \/ r.visible.t # "boolean"

C8_MissingOrIllTypedFails ==
    (parsed.done /\ (LacksField(raw) \/ IllTyped(raw))) => ~parsed.success

\* the schema has rejected a record whose only fault is that it has no title
C8_Witness ==
    /\ parsed.done
    /\ ~parsed.success
    /\ raw.title = YUndef
    /\ \A f \in Fields \ {"title"} : raw[f].t # "undefined"
    /\ ~IllTyped([raw EXCEPT !.title = YStr(S_title)])

(***************************************************************************)
(* C9: every record that passes the schema carries a valid date as its     *)
(* pubDate; a pubDate text that denotes no date is not accepted.           *)
(***************************************************************************)
C9_AcceptedPubDateIsADate ==
    (parsed.done /\ parsed.success) => ~parsed.data.pubDate.nan

(***************************************************************************)
(* C10: if the frontmatter of any article fails the schema, neither the    *)
(* list view nor any per-article view is produced, and no record that      *)
(* fails the schema reaches a rendering step.                              *)
(***************************************************************************)
FailsSchema(i) == ~blog(files[i]).success

C10_InvalidFrontmatterStopsBuild ==
    /\ (\E i \in 1..Len(files) : FailsSchema(i)) =>
          (~listPage.rendered /\ ~routes.done /\ articlePages = {})
    /\ \A p \in Items : ~FailsSchema(listPage.posts[p].slug)
    /\ \A v \in articlePages : ~FailsSchema(v.slug)

\* a build with a good file and a bad one has been attempted and has failed
C10_Witness ==
    /\ failed
    /\ \E i, k \in 1..Len(files) : FailsSchema(i) /\ ~FailsSchema(k)
    /\ ~listPage.rendered

(***************************************************************************)
(* Vocabulary of the properties of the article page.                       *)
(***************************************************************************)
\* the level-2 and level-3 headings of the article body, in document order
BodyHeadings ==
    SelectSeq(doc.headings, LAMBDA h : h.inArticle /\ h.nodeName \in {"H2", "H3"})

\* the text a heading or an entry shows
shownText(t) == innerText(t)

\* the generator has run on a page with the article and the container
Generated == doc.article /\ doc.toc /\ tocRuns > 0

(***************************************************************************)
(* C11: once generateTableOfContents has run on an article page whose      *)
(* container was empty, the container holds one entry per level-2 or       *)
(* level-3 heading of the article body, in document order, each linking to *)
(* '#' followed by the heading's id and showing the heading's text, a      *)
(* level-2 entry at margin 0rem and a level-3 entry at margin 1rem.        *)
(***************************************************************************)
C11_TocListsBodyHeadings ==
    Generated =>
        /\ Len(toc) = Len(BodyHeadings)
        /\ \A i \in 1..Len(toc) :
              /\ toc[i].href = <<"#">> \o BodyHeadings[i].id
              /\ shownText(toc[i].innerText) = shownText(BodyHeadings[i].textContent)
              /\ toc[i].marginLeft =
                    (IF BodyHeadings[i].nodeName = "H2" THEN "0rem" ELSE "1rem")

\* an article with two level-2 headings and one level-3 heading between
\* them has three entries, the second at margin 1rem
C11_Witness ==
    /\ Generated
    /\ Len(doc.headings) = 3
    /\ \A i \in 1..3 : doc.headings[i].inArticle
    /\ doc.headings[1].nodeName = "H2"
    /\ doc.headings[2].nodeName = "H3"
    /\ doc.headings[3].nodeName = "H2"
    /\ Len(toc) = 3
    /\ toc[2].marginLeft = "1rem"
    /\ toc[3].href = <<"#">> \o doc.headings[3].id

(***************************************************************************)
(* C12: after any number of invocations of generateTableOfContents on one  *)
(* page, every level-2 or level-3 heading of the article body has exactly  *)
(* one entry in the container and the container holds nothing else.        *)
(***************************************************************************)
C12_TocGeneratedAtMostOnce ==
    Generated =>
        /\ \A i \in 1..Len(BodyHeadings) :
              Cardinality({e \in 1..Len(toc) :
                             toc[e].href = <<"#">> \o BodyHeadings[i].id}) = 1
        /\ Len(toc) = Len(BodyHeadings)

\* the generator has been invoked more than once on an article with two
\* headings to list
C12_Witness ==
    /\ Generated
    /\ tocRuns >= 2
    /\ Len(BodyHeadings) >= 2
    /\ Len(toc) = Len(BodyHeadings)

(***************************************************************************)
(* C13: when an element a script relies on is missing - the article        *)
(* element or #table-of-contents for the generator, #post-progress-bar for *)
(* the scroll listener - the script raises no error and changes nothing.   *)
(***************************************************************************)
C13_MissingElementIsSilent ==
    /\ (tocRuns > 0 /\ (~doc.article \/ ~doc.toc)) =>
          ("generateTableOfContents" \notin scriptErrors /\ toc = <<>>)
    /\ ~doc.bar => ("scroll" \notin scriptErrors /\ barWidth = NoWidth)

(***************************************************************************)
(* C14: a click changes nothing of what the list page shows but the dimmed *)
(* markers: the listed articles, their order, and the title, description,  *)
(* date and tags of each article stay as they are.                         *)
(***************************************************************************)
C14_FilterIsPresentational ==
    [][listPage' = listPage /\ store' = store /\ files' = files]_vars

\* clicks have been made on a list of two articles and one of them is dimmed
C14_Witness ==
    /\ Len(clickLog) = 2
    /\ Len(listPage.posts) = 2
    /\ \E p \in Items : postDim[p]

(***************************************************************************)
(* C15: from every display reached by clicks, the unselected display of    *)
(* the initial state is at most one click away: the display is unselected  *)
(* already, or a click on the control of the selected tag resets it.       *)
(***************************************************************************)
C15_OneClickRestoresUnselected ==
    \/ Unselected
    \/ \E j \in Buttons :
          /\ names(last_tag_clicked, j)
          /\ LET after == onTagClick(listPage, last_tag_clicked, j)
             IN  /\ after.last_tag_clicked = Null
                 /\ \A p \in 1..Len(after.postDim) : ~after.postDim[p]
                 /\ \A k \in 1..Len(after.tagDim) : ~after.tagDim[k]
                 /\ after.page = listPage

\* a second tag was selected after a first one, and an article is dimmed
C15_Witness ==
    /\ Len(clickLog) = 2
    /\ clickLog[1].tag # clickLog[2].tag
    /\ ~Unselected
    /\ \E p \in Items : postDim[p]
    /\ \E j \in Buttons : names(last_tag_clicked, j) /\ labelOf(j) = S_rnd

(***************************************************************************)
(* C16: rendering the list view and the per-article views changes no field *)
(* of an article's record: each entry of the collection keeps the output   *)
(* of the schema on its file, the order of its tags included.              *)
(***************************************************************************)
C16_ArticleRecordsImmutable ==
    store.loaded =>
        \A i \in 1..Len(store.entries) :
            store.entries[i].data = blog(files[store.entries[i].slug]).data

(***************************************************************************)
(* C17: getStaticPaths yields exactly one route per article of the         *)
(* collection, whatever its visible flag and the development flag, the     *)
(* route addressed by the article's slug and carrying that article.        *)
(***************************************************************************)
C17_OneRoutePerArticle ==
    routes.done =>
        /\ Len(routes.paths) = Len(files)
        /\ \A i \in 1..Len(files) :
              Cardinality({k \in 1..Len(routes.paths) :
                             routes.paths[k].params.slug = i}) = 1
        /\ \A k \in 1..Len(routes.paths) :
              store.entries[routes.paths[k].props].slug = routes.paths[k].params.slug

\* a production build has routes for a visible and for a hidden article
C17_Witness ==
    /\ routes.done
    /\ node_env = "production"
    /\ \E i, k \in 1..Len(files) :
          /\ files[i].visible = YBool(FALSE)
          /\ files[k].visible = YBool(TRUE)
          /\ \E a, b \in 1..Len(routes.paths) :
                routes.paths[a].params.slug = i /\ routes.paths[b].params.slug = k

(***************************************************************************)
(* C18: a record with an empty tags sequence and otherwise well-typed      *)
(* fields passes the schema and is listed like any other; while some tag   *)
(* is selected that article is dimmed, and in the unselected display it is *)
(* not.                                                                    *)
(***************************************************************************)
C18_UntaggedArticleDimmedWhenSelected ==
    /\ \A i \in 1..Len(files) :
          files[i].tags = YArr(<<>>) =>
              /\ blog(files[i]).success
              /\ (files[i].visible = YBool(TRUE) \/ is_development(node_env))
                    => i \in ListedSlugs
    /\ \A p \in Items :
          articleTags(p) = <<>> =>
              /\ last_tag_clicked # Null => postDim[p]
              /\ Unselected => ~postDim[p]

(***************************************************************************)
(* C19: the display agrees with last_tag_clicked in every state: with no   *)
(* selection nothing is dimmed; with tag T selected the dimmed articles    *)
(* are exactly those whose tags do not include T and the dimmed controls   *)
(* are exactly those other than T.                                         *)
(***************************************************************************)
C19_DisplayConsistentWithSelection ==
    /\ last_tag_clicked = Null => Unselected
    /\ last_tag_clicked # Null => \E j \in Buttons : names(last_tag_clicked, j)
    /\ \A j \in Buttons :
          names(last_tag_clicked, j) =>
              /\ \A p \in Items :
                    postDim[p] = ~includes(articleTags(p), labelOf(j))
              /\ \A k \in Buttons : tagDim[k] = (k # j)

(***************************************************************************)
(* C20: last_tag_clicked is none or the tag of the most recent click, and  *)
(* none exactly when that click was made on the selection of its time.  So *)
(* a click on T, one on another tag U and one on T again leave T selected, *)
(* and n successive clicks on one tag from the unselected display leave it *)
(* selected for odd n and the display unselected for even n.               *)
(***************************************************************************)
C20_SelectionFollowsLastClick ==
    /\ clickLog = <<>> => last_tag_clicked = Null
    /\ \A j \in Buttons :
          (clickLog # <<>> /\ clickLog[1].tag = j) =>
              /\ (last_tag_clicked = Null) <=> ResettingClick(j)
              /\ last_tag_clicked # Null => names(last_tag_clicked, j)
    /\ \A j, k \in Buttons :
          (/\ j # k
           /\ Len(clickLog) = 2
           /\ clickLog[1].tag = j
           /\ clickLog[2].tag = k
           /\ names(clickLog[2].before, j)) => names(last_tag_clicked, j)
    /\ streak.n \in 1..MaxStreak =>
          /\ streak.n % 2 = 1 => names(last_tag_clicked, streak.tag)
          /\ streak.n % 2 = 0 => Unselected

\* a third successive click on the tag 'r&d' has selected it again
C20_Witness ==
    /\ streak.n = 3
    /\ labelOf(streak.tag) = S_rnd
    /\ names(last_tag_clicked, streak.tag)
    /\ \E p \in Items : postDim[p]

(***************************************************************************)
(* C21: the labels of the tag controls are exactly the tags of the listed  *)
(* articles: every control's tag is carried by a listed article, so a      *)
(* click that selects a control leaves a listed article highlighted, and a *)
(* tag carried only by articles that are not listed has no control.        *)
(***************************************************************************)
tagsOf(seq) == {seq[n] : n \in 1..Len(seq)}

C21_ControlsAreTagsOfListed ==
    /\ {labelOf(j) : j \in Buttons} = UNION {tagsOf(articleTags(p)) : p \in Items}
    /\ \A j \in Buttons :
          SelectingClick(j) => \E p \in Items : ~postDim[p]
    /\ \A i \in 1..Len(store.entries) :
          i \notin ListedSlugs =>
              \A t \in tagsOf(store.entries[i].data.tags) :
                  (\A p \in Items : ~includes(articleTags(p), t))
                      => \A j \in Buttons : labelOf(j) # t

\* in production a hidden article carries 'r&d', the listed one does not,
\* and the only control has been selected
C21_Witness ==
    /\ node_env = "production"
    /\ \E i \in 1..Len(store.entries) :
          /\ i \notin ListedSlugs
          /\ includes(store.entries[i].data.tags, S_rnd)
    /\ Len(listPage.posts) = 1
    /\ \E j \in Buttons : SelectingClick(j) /\ ~postDim[1]
    /\ \A j \in Buttons : labelOf(j) # S_rnd

(***************************************************************************)
(* C22: the list shows the articles newest first - of two listed articles  *)
(* with different publish dates the one with the later date comes first -  *)
(* and the tag controls are in ascending lexicographic order of their      *)
(* labels.                                                                 *)
(***************************************************************************)
C22_ListNewestFirst ==
    listPage.rendered =>
        /\ \A p, q \in Items :
              (/\ ~listPage.posts[p].pubDate.nan
               /\ ~listPage.posts[q].pubDate.nan
               /\ listPage.posts[p].pubDate.time > listPage.posts[q].pubDate.time)
                  => p < q
        /\ \A j, k \in Buttons : j < k => strLess(labelOf(j), labelOf(k))

(***************************************************************************)
(* C23: every article of the list links to a route that exists: the slugs  *)
(* linked from the list are among the slugs of getStaticPaths, in          *)
(* production and in development.                                          *)
(***************************************************************************)
RouteSlugs == {routes.paths[k].params.slug : k \in 1..Len(routes.paths)}

C23_ListedSlugsHaveRoutes ==
    (listPage.rendered /\ routes.done) => ListedSlugs \subseteq RouteSlugs

\* a development build lists a hidden article beside a visible one, and the
\* routes have been generated
C23_Witness ==
    /\ listPage.rendered
    /\ routes.done
    /\ node_env = "development"
    /\ \E i, k \in ListedSlugs :
          /\ files[i].visible = YBool(FALSE)
          /\ files[k].visible = YBool(TRUE)
          /\ {i, k} \subseteq RouteSlugs

(***************************************************************************)
(* C24: the generator makes entries for level-2 and level-3 headings       *)
(* inside the article element only: a heading of another level (the        *)
(* level-1 title, levels 4 to 6) or outside the article gets no entry, and *)
(* on a page without an article element the generator changes nothing.     *)
(***************************************************************************)
inBody(h) == h.inArticle /\ h.nodeName \in {"H2", "H3"}

C24_TocOnlyBodyH2H3 ==
    /\ \A e \in 1..Len(toc) :
          \E i \in 1..Len(doc.headings) :
              toc[e].href = <<"#">> \o doc.headings[i].id /\ inBody(doc.headings[i])
    /\ \A i \in 1..Len(doc.headings) :
          ~inBody(doc.headings[i]) =>
              \A e \in 1..Len(toc) : toc[e].href # <<"#">> \o doc.headings[i].id
    /\ ~doc.article =>
          (toc = <<>> /\ "generateTableOfContents" \notin scriptErrors)

\* the generator has run on an article with a level-2 heading, a heading of
\* level 4 to 6 and a level-2 heading outside the article: one entry
C24_Witness ==
    /\ Generated
    /\ \E i, k, n \in 1..Len(doc.headings) :
          /\ doc.headings[i].inArticle /\ doc.headings[i].nodeName = "H2"
          /\ doc.headings[k].inArticle
          /\ doc.headings[k].nodeName \in {"H4", "H5", "H6"}
          /\ ~doc.headings[n].inArticle /\ doc.headings[n].nodeName = "H2"
    /\ Len(toc) = 1

(***************************************************************************)
(* C25: after every scroll event the width of the progress bar is the      *)
(* percentage scrollY / (scrollHeight - innerHeight) * 100: 0% at the top, *)
(* 100% at the bottom, not decreasing as scrollY grows, and a value from   *)
(* 0% to 100% on every page, one as tall as its window included.           *)
(***************************************************************************)
C25_BarWidthIsPercentRead ==
    scrollLog # <<>> =>
        /\ barWidth.set
        /\ barWidth.den > 0
        /\ barWidth.num = view.scrollY * 100
        /\ barWidth.den = view.scrollHeight - view.innerHeight
        /\ 0 <= barWidth.num /\ barWidth.num <= 100 * barWidth.den
        /\ view.scrollY = 0 => barWidth.num = 0
        /\ view.scrollY = view.scrollHeight - view.innerHeight
              => barWidth.num = 100 * barWidth.den
        /\ (Len(scrollLog) = 2 /\ scrollLog[2].scrollY <= scrollLog[1].scrollY) =>
              scrollLog[2].width.num * scrollLog[1].width.den
                  <= scrollLog[1].width.num * scrollLog[2].width.den

====
